---- MODULE Spec2Model ----
(***************************************************************************)
(* poolcli refund commands (cli/refund.py) and the refund orchestrator     *)
(* (core/refund_manager.py).  One CLI invocation is a linear run: the      *)
(* command authenticates, builds a RefundManager and calls one of its      *)
(* operations; the collaborators (AuthService, KeyManager, APIClient, the  *)
(* prompt, the backend) answer nondeterministically.  Several invocations  *)
(* follow one another against the same backend.                            *)
(***************************************************************************)
EXTENDS Naturals, Sequences, FiniteSets, TLC

VARIABLES
    cmd,            \* the command of the running invocation
    pc,             \* position of the command
    refund_id,      \* --refund-id of a get invocation
    token,          \* what authenticate_with_wallet returned
    managerBuilt,   \* RefundManager(backend_url) was constructed
    trace,          \* collaborator calls of this invocation, in order
    expired_keys,   \* keys_result["keys"]
    checks,         \* per checked key: the clock reading and the verdict
    eligible_keys,  \* the list comprehension's result so far
    options,        \* options handed to choice(), <<>> while no prompt
    result,         \* the option the user picked (set of 0 or 1 index)
    createOutcome,  \* how create_refund_invoice ended
    cause,          \* exception a collaborator or the command body raised
    raised,         \* exception an orchestrator operation raised
    out,            \* Console output of this invocation
    exit,           \* how the command function ended
    shown,          \* rows of the table the command printed
    invoices,       \* the backend's refund invoices
    created,        \* what refund start displayed for each created invoice
    clock,          \* wall clock (UTC, hours)
    invocations     \* number of invocations so far

vars == <<cmd, pc, refund_id, token, managerBuilt, trace, expired_keys, checks,
          eligible_keys, options, result, createOutcome, cause, raised, out,
          exit, shown, invoices, created, clock, invocations>>

-----------------------------------------------------------------------------
(* Bounds of the model *)

MaxKeys == 2
MaxTicks == 1
MaxInvocations == 2

-----------------------------------------------------------------------------
(* Time.  The unit is one hour. *)

\* timedelta(days=30)
ThirtyDays == 30 * 24

Epoch == ThirtyDays + 3

\* UTC offset of a parsed timestamp's tzinfo; datetime.now(None) is local time
\* (the machine is taken to run two hours east of UTC).
UtcOffset(tz) ==
    CASE tz = "Z" -> 0
      [] tz = "+01:00" -> 1
      [] tz = "naive" -> 2

\* datetime.now(tzinfo): the wall-clock reading in that zone
DatetimeNow(tz, utc) == utc + UtcOffset(tz)

-----------------------------------------------------------------------------
(* Developer keys as the key listing returns them *)

TimeZones == {"naive", "Z", "+01:00"}
Instants == {Epoch - ThirtyDays - 1, Epoch - ThirtyDays, Epoch - ThirtyDays + 1}

\* the ISO string of instant i written in zone z
Iso(i, z) == [kind |-> "iso", wall |-> i + UtcOffset(z), tz |-> z]

\* every instant written with "Z", the instant exactly thirty days before the
\* epoch written in every zone
IsoValues ==
    {Iso(i, "Z") : i \in Instants} \cup {Iso(Epoch - ThirtyDays, z) : z \in TimeZones}

\* "malformed" is any string fromisoformat rejects (the empty string included),
\* "absent" a key without the field, "null" a JSON null, "number" a JSON number.
BadValues ==
    {[kind |-> k, wall |-> 0, tz |-> "naive"] : k \in {"malformed", "absent", "null", "number"}}

UpdatedAtValues == IsoValues \cup BadValues

KeyLists ==
    UNION {[1..n -> UpdatedAtValues] : n \in 0..MaxKeys}

\* the i-th key of a listing whose updatedAt fields are us
KeyOf(us, i) == [keyId |-> i, apiKey |-> 100 + i, updatedAt |-> us[i]]

KeysOf(us) == [i \in 1..Len(us) |-> KeyOf(us, i)]

-----------------------------------------------------------------------------
(* Optional fields of a JSON object: a set with zero or one element *)

Absent == {}

\* dict.get(field, default)
Get(field, default) == IF field = Absent THEN default ELSE CHOOSE x \in field : TRUE

\* key.get("updatedAt", "")
KeyGetUpdatedAt(key) ==
    IF key.updatedAt.kind = "absent"
    THEN [kind |-> "malformed", wall |-> 0, tz |-> "naive"]
    ELSE key.updatedAt

\* str.upper() on the status strings in use
Upper(s) ==
    CASE s = "pending" -> "PENDING"
      [] s = "paid" -> "PAID"
      [] s = "unknown" -> "UNKNOWN"
      [] OTHER -> s

-----------------------------------------------------------------------------
(* RefundManager._is_older_than_one_month *)

\* updated_at.replace("Z", "+00:00") followed by datetime.fromisoformat:
\* the exception it raises, "none" when the string parses
ParseError(updated_at) ==
    CASE updated_at.kind \in {"null", "number"} -> "AttributeError"
      [] updated_at.kind = "malformed" -> "ValueError"
      [] OTHER -> "none"

\* except (ValueError, TypeError): return False
ParseErrorsCaught == {"ValueError", "TypeError"}

is_older_than_one_month_inclusive(updated_at, utc) ==
    LET e == ParseError(updated_at)
    IN  IF e = "none"
        THEN IF updated_at.wall <= DatetimeNow(updated_at.tz, utc) - ThirtyDays
             THEN "True" ELSE "False"
        ELSE IF e \in ParseErrorsCaught THEN "False" ELSE e

\* "True" or "False", or the name of the exception that escapes
is_older_than_one_month(updated_at, utc) ==
    LET e == ParseError(updated_at)
    IN  IF e = "none"
        THEN IF updated_at.wall < DatetimeNow(updated_at.tz, utc) - ThirtyDays
             THEN "True" ELSE "False"
        ELSE IF e \in ParseErrorsCaught THEN "False" ELSE e

-----------------------------------------------------------------------------
(* Exceptions *)

\* what a collaborator call may raise: a transport failure or anything else
CallFailures == {"RequestException", "Exception"}

\* create_refund_invoice: except requests.RequestException / except Exception
CreateExcept(e) == IF e = "RequestException" THEN "APIError" ELSE "RefundError"

\* list_refund_invoices: except requests.RequestException / except Exception
ListExcept(e) == IF e = "RequestException" THEN "APIError" ELSE "RefundError"

\* get_refund_details: except Exception only
GetExcept(e) == "RefundError"

Msg(level, text) == [level |-> level, text |-> text]

CommandCatch_propagating(e) ==
    IF e \in {"AuthenticationError", "APIError", "RefundError"}
    THEN [exit |-> "returned", msgs |-> <<Msg("error", e)>>]
    ELSE [exit |-> "propagated", msgs |-> <<>>]

\* the except clauses closing each command: Console.error(str(e)) for the three
\* poolcli exceptions, Console.error("Unexpected error: ...") for any other
CommandCatch(e) ==
    IF e \in {"AuthenticationError", "APIError", "RefundError"}
    THEN [exit |-> "returned", msgs |-> <<Msg("error", e)>>]
    ELSE [exit |-> "returned", msgs |-> <<Msg("error", "Unexpected error")>>]

TokenMissing_never(tok) == FALSE

\* if not token:
TokenMissing(tok) == tok = ""

\* after an operation raised, the command is over: nothing is called again
AfterRaise_retry(p) == p

AfterRaise(p) == "done"

-----------------------------------------------------------------------------
(* Refund invoices as the backend returns them in response["data"] *)

StatusValues == {Absent, {"pending"}}
AmountValues == {Absent, {7}}

RefundIdOf(key_id) == "r" \o ToString(key_id)

RefundIds == {RefundIdOf(k) : k \in 1..MaxKeys} \cup {"nonexistent-id"}

EmptyDoc == [refundId |-> Absent, status |-> Absent, amountDue |-> Absent]

\* truth value of a dict: it has at least one entry
Truthy(doc) == doc # EmptyDoc

StartAmountDefault == 5
GetAmountDefault == 0
ListAmountDefault == 5

Row(id, amount, status) == [id |-> id, amount |-> amount, status |-> status]

\* refund start, after create_refund_invoice returned resp ({} is None)
StartRender(resp) ==
    IF resp = {}
    THEN [exc |-> "AttributeError", msgs |-> <<>>, rows |-> {}]
    ELSE LET d == CHOOSE x \in resp : TRUE
             amount == Get(d.amountDue, StartAmountDefault)
         IN  IF Truthy(d)
             THEN [exc |-> "none",
                   msgs |-> <<Msg("success", "Refund invoice created successfully!"),
                              Msg("table", "Refund Invoice Details")>>,
                   rows |-> {Row(Get(d.refundId, "N/A"), amount,
                                 Upper(Get(d.status, "unknown")))}]
             ELSE [exc |-> "none",
                   msgs |-> <<Msg("warning", "No refund invoice returned.")>>,
                   rows |-> {}]

\* refund get, after get_refund_details returned refund_details
GetRender(rid, refund_details) ==
    [exc |-> "none",
     msgs |-> <<Msg("table", "Refund")>>,
     rows |-> {Row(rid, Get(refund_details.amountDue, GetAmountDefault),
                   Upper(Get(refund_details.status, "unknown")))}]

\* RefundManager.display_refund_list
display_refund_list(refunds) ==
    IF refunds = {}
    THEN [exc |-> "none", msgs |-> <<Msg("warning", "No refund invoices found.")>>,
          rows |-> {}]
    ELSE [exc |-> "none",
          msgs |-> <<Msg("table", "refunds"), Msg("info", "Page")>>,
          rows |-> {Row(Get(d.refundId, "N/A"), Get(d.amountDue, ListAmountDefault),
                        Upper(Get(d.status, "unknown"))) : d \in refunds}]

\* key_id = selected_key["keyId"]; payload = {"keyId": key_id}
Payload_apiKey(selected_key) == selected_key.apiKey

Payload(selected_key) == selected_key.keyId

Call(op, key_id) == [op |-> op, keyId |-> key_id]

-----------------------------------------------------------------------------
(* The commands *)

Commands == {"start", "list", "get"}

\* the RefundManager operation a command calls once it holds a token
FirstStep(c) ==
    CASE c = "start" -> "list_developer_keys"
      [] c = "list" -> "list_refund_invoices"
      [] c = "get" -> "get_refund_details"

MaxClock == Epoch + MaxTicks

Init ==
    /\ cmd = "none"
    /\ pc = "idle"
    /\ refund_id = ""
    /\ token = ""
    /\ managerBuilt = FALSE
    /\ trace = <<>>
    /\ expired_keys = <<>>
    /\ checks = <<>>
    /\ eligible_keys = <<>>
    /\ options = <<>>
    /\ result = {}
    /\ createOutcome = "none"
    /\ cause = "none"
    /\ raised = "none"
    /\ out = <<>>
    /\ exit = "none"
    /\ shown = {}
    /\ invoices = {}
    /\ created = {}
    /\ clock = Epoch
    /\ invocations = 0

\* the command function returns after printing msgs
CommandReturns(msgs) ==
    /\ out' = out \o msgs
    /\ exit' = "returned"
    /\ pc' = "done"

\* exception e reaches the try block of the command, after msgs were printed
CommandRaises(msgs, e) ==
    LET h == CommandCatch(e)
    IN  /\ out' = out \o msgs \o h.msgs
        /\ exit' = h.exit
        /\ pc' = AfterRaise(pc)

\* refund start from line 39 on, create_refund_invoice having returned resp
\* after printing msgs
StartContinues(msgs, resp) ==
    LET r == StartRender(resp)
    IN  /\ shown' = r.rows
        /\ IF r.exc = "none"
           THEN /\ cause' = cause
                /\ CommandReturns(msgs \o r.msgs)
           ELSE /\ cause' = r.exc
                /\ CommandRaises(msgs, r.exc)

\* a new process runs one of the three commands
Invoke(c, rid) ==
    /\ pc \in {"idle", "done"}
    /\ invocations < MaxInvocations
    /\ invocations' = invocations + 1
    /\ cmd' = c
    /\ refund_id' = IF c = "get" THEN rid ELSE ""
    /\ pc' = "authenticate"
    /\ token' = ""
    /\ managerBuilt' = FALSE
    /\ trace' = <<>>
    /\ expired_keys' = <<>>
    /\ checks' = <<>>
    /\ eligible_keys' = <<>>
    /\ options' = <<>>
    /\ result' = {}
    /\ createOutcome' = "none"
    /\ cause' = "none"
    /\ raised' = "none"
    /\ out' = <<Msg("header", c)>>
    /\ exit' = "running"
    /\ shown' = {}
    /\ UNCHANGED <<invoices, created, clock>>

AuthOutcomes == {"tok", "", "AuthenticationError", "Exception"}

\* AuthService(backend_url).authenticate_with_wallet(...), the token check and
\* RefundManager(backend_url)
Authenticate ==
    /\ pc = "authenticate"
    /\ trace' = Append(trace, Call("authenticate_with_wallet", 0))
    /\ \E r \in AuthOutcomes :
         IF r \in {"AuthenticationError", "Exception"}
         THEN /\ cause' = r
              /\ CommandRaises(<<>>, r)
              /\ UNCHANGED <<token, managerBuilt>>
         ELSE /\ token' = r
              /\ cause' = cause
              /\ IF TokenMissing(r)
                 THEN /\ CommandReturns(<<Msg("error", "Authentication required.")>>)
                      /\ UNCHANGED managerBuilt
                 ELSE /\ managerBuilt' = TRUE
                      /\ pc' = FirstStep(cmd)
                      /\ UNCHANGED <<out, exit>>
    /\ UNCHANGED <<cmd, refund_id, expired_keys, checks, eligible_keys, options,
                   result, createOutcome, raised, shown, invoices, created,
                   clock, invocations>>

\* create_refund_invoice, lines 38-43: the key listing and the empty case
ListDeveloperKeys ==
    /\ pc = "list_developer_keys"
    /\ trace' = Append(trace, Call("list_developer_keys", 0))
    /\ \/ \E e \in CallFailures :
            /\ cause' = e
            /\ raised' = CreateExcept(e)
            /\ createOutcome' = "raised"
            /\ CommandRaises(<<>>, CreateExcept(e))
            /\ UNCHANGED <<expired_keys, shown>>
       \/ \E us \in KeyLists :
            /\ expired_keys' = KeysOf(us)
            /\ raised' = raised
            /\ IF Len(us) = 0
               THEN /\ createOutcome' = "None"
                    /\ StartContinues(<<>>, {})
               ELSE /\ pc' = "filter"
                    /\ UNCHANGED <<createOutcome, cause, out, exit, shown>>
    /\ UNCHANGED <<cmd, refund_id, token, managerBuilt, checks, eligible_keys,
                   options, result, invoices, created, clock, invocations>>

\* options=[(i, key["apiKey"]) for i, key in enumerate(eligible_keys)]
OptionsOf(keys) == [j \in 1..Len(keys) |-> <<j - 1, keys[j].apiKey>>]

\* create_refund_invoice, lines 45-51: one round of the list comprehension,
\* which reads the clock, and after the last key the eligible-set check
FilterKey ==
    /\ pc = "filter"
    /\ \E t \in {clock, IF clock < MaxClock THEN clock + 1 ELSE clock} :
         LET i == Len(checks) + 1
             key == expired_keys[i]
             v == is_older_than_one_month(KeyGetUpdatedAt(key), t)
             eligible == IF v = "True" THEN Append(eligible_keys, key)
                         ELSE eligible_keys
         IN  /\ clock' = t
             /\ checks' = Append(checks, [now |-> t, verdict |-> v])
             /\ IF v \notin {"True", "False"}
                THEN /\ cause' = v
                     /\ raised' = CreateExcept(v)
                     /\ createOutcome' = "raised"
                     /\ CommandRaises(<<>>, CreateExcept(v))
                     /\ UNCHANGED <<eligible_keys, options, shown>>
                ELSE /\ eligible_keys' = eligible
                     /\ raised' = raised
                     /\ IF i < Len(expired_keys)
                        THEN UNCHANGED <<pc, options, createOutcome, cause, out,
                                         exit, shown>>
                        ELSE IF Len(eligible) = 0
                        THEN /\ createOutcome' = "None"
                             /\ StartContinues(
                                  <<Msg("warning",
                                        "No expired keys older than 1 month found.")>>,
                                  {})
                             /\ UNCHANGED options
                        ELSE /\ options' = OptionsOf(eligible)
                             /\ out' = Append(out, Msg("header", "Expired Developer Keys"))
                             /\ pc' = "choice"
                             /\ UNCHANGED <<createOutcome, cause, exit, shown>>
    /\ UNCHANGED <<cmd, refund_id, token, managerBuilt, trace, expired_keys,
                   result, invoices, created, invocations>>

\* result = choice(...): the user picks one option, choice returns its value
Choice ==
    /\ pc = "choice"
    /\ \E j \in 1..Len(options) : result' = {options[j][1]}
    /\ trace' = Append(trace, Call("choice", 0))
    /\ pc' = "create_request"
    /\ UNCHANGED <<cmd, refund_id, token, managerBuilt, expired_keys, checks,
                   eligible_keys, options, createOutcome, cause, raised, out,
                   exit, shown, invoices, created, clock, invocations>>

\* create_refund_invoice, lines 62-70: the POST, then refund start's rendering
CreateRequest ==
    /\ pc = "create_request"
    /\ LET selected_key == eligible_keys[Get(result, 0) + 1]
           key_id == Payload(selected_key)
           rid == RefundIdOf(key_id)
       IN  /\ trace' = Append(trace, Call("POST CREATE_REFUND_INVOICE", key_id))
           /\ \/ \E e \in CallFailures :
                   /\ cause' = e
                   /\ raised' = CreateExcept(e)
                   /\ createOutcome' = "raised"
                   /\ CommandRaises(<<>>, CreateExcept(e))
                   /\ UNCHANGED <<shown, invoices, created>>
              \/ \E s \in StatusValues, a \in AmountValues :
                   LET doc == [refundId |-> {rid}, status |-> s, amountDue |-> a]
                   IN  /\ \A d \in invoices : d.refundId # {rid}
                       /\ invoices' = invoices \cup {doc}
                       /\ createOutcome' = "invoice"
                       /\ raised' = raised
                       /\ StartContinues(
                            <<Msg("success", "Refund Invoice created successfully!")>>,
                            {doc})
                       /\ created' = created \cup StartRender({doc}).rows
              \/ /\ createOutcome' = "invoice"
                 /\ raised' = raised
                 /\ StartContinues(
                      <<Msg("success", "Refund Invoice created successfully!")>>,
                      {EmptyDoc})
                 /\ UNCHANGED <<invoices, created>>
    /\ UNCHANGED <<cmd, refund_id, token, managerBuilt, expired_keys, checks,
                   eligible_keys, options, result, clock, invocations>>

\* list_refund_invoices and display_refund_list
ListRefundInvoices ==
    /\ pc = "list_refund_invoices"
    /\ trace' = Append(trace, Call("GET LIST_REFUND_INVOICES", 0))
    /\ \/ \E e \in CallFailures :
            /\ cause' = e
            /\ raised' = ListExcept(e)
            /\ CommandRaises(<<>>, ListExcept(e))
            /\ UNCHANGED shown
       \/ LET r == display_refund_list(invoices)
          IN  /\ shown' = r.rows
              /\ CommandReturns(r.msgs)
              /\ UNCHANGED <<cause, raised>>
    /\ UNCHANGED <<cmd, refund_id, token, managerBuilt, expired_keys, checks,
                   eligible_keys, options, result, createOutcome, invoices,
                   created, clock, invocations>>

\* get_refund_details and refund get's rendering
GetRefundDetails ==
    /\ pc = "get_refund_details"
    /\ trace' = Append(trace, Call("GET GET_REFUND_DETAILS", 0))
    /\ \/ \E e \in CallFailures :
            /\ cause' = e
            /\ raised' = GetExcept(e)
            /\ CommandRaises(<<>>, GetExcept(e))
            /\ UNCHANGED shown
       \/ \E d \in invoices :
            /\ d.refundId = {refund_id}
            /\ shown' = GetRender(refund_id, d).rows
            /\ CommandReturns(GetRender(refund_id, d).msgs)
            /\ UNCHANGED <<cause, raised>>
    /\ UNCHANGED <<cmd, refund_id, token, managerBuilt, expired_keys, checks,
                   eligible_keys, options, result, createOutcome, invoices,
                   created, clock, invocations>>

Next ==
    \/ \E c \in Commands, rid \in RefundIds : Invoke(c, rid)
    \/ Authenticate
    \/ ListDeveloperKeys
    \/ FilterKey
    \/ Choice
    \/ CreateRequest
    \/ ListRefundInvoices
    \/ GetRefundDetails

Spec == Init /\ [][Next]_vars

-----------------------------------------------------------------------------
(* Vocabulary of the properties *)

AuthOp == "authenticate_with_wallet"
KeysOp == "list_developer_keys"
PostOp == "POST CREATE_REFUND_INVOICE"
ListOp == "GET LIST_REFUND_INVOICES"
GetOp == "GET GET_REFUND_DETAILS"

BackendOps == {KeysOp, PostOp, ListOp, GetOp}

CountOp(op) == Cardinality({i \in DOMAIN trace : trace[i].op = op})

IsBackendCall(c) == c.op \in BackendOps

\* the backend calls of the invocation, in order
BackendCalls ==
    LET s == SelectSeq(trace, IsBackendCall)
    IN  [i \in 1..Len(s) |-> s[i].op]

ErrorCount == Cardinality({i \in DOMAIN out : out[i].level = "error"})
WarningCount == Cardinality({i \in DOMAIN out : out[i].level = "warning"})

\* the eligibility relation of the data model: the timestamp is well formed
\* and its instant is strictly earlier than now minus thirty days
SpecEligible(key, now) ==
    /\ key.updatedAt.kind = "iso"
    /\ (key.updatedAt.wall - UtcOffset(key.updatedAt.tz)) + ThirtyDays < now

\* the first n fetched keys that were eligible when they were checked
RECURSIVE OlderSubseq(_)
OlderSubseq(n) ==
    IF n = 0 THEN <<>>
    ELSE IF SpecEligible(expired_keys[n], checks[n].now)
         THEN Append(OlderSubseq(n - 1), expired_keys[n])
         ELSE OlderSubseq(n - 1)

\* the key listing of a start invocation failed / returned
ListingFailed == createOutcome = "raised" /\ checks = <<>> /\ Len(trace) = 2
ListingReturned == cmd = "start" /\ Len(trace) >= 2 /\ ~ListingFailed

\* authenticate_with_wallet returned an empty token
EmptyTokenReturned == Len(trace) >= 1 /\ token = "" /\ cause = "none"

-----------------------------------------------------------------------------
(* C1: in every command, once authentication has returned an empty token    *)
(* the command has printed "Authentication required." as its only message   *)
(* after the header and has returned; no RefundManager was constructed and  *)
(* no backend call (key listing, creation, listing, detail) was made.       *)
C1_EmptyTokenShortCircuits ==
    EmptyTokenReturned =>
        /\ pc = "done"
        /\ exit = "returned"
        /\ ~managerBuilt
        /\ trace = <<Call(AuthOp, 0)>>
        /\ out = <<Msg("header", cmd), Msg("error", "Authentication required.")>>

C1_Witness ==
    /\ EmptyTokenReturned
    /\ cmd = "get"
    /\ pc = "done"

(* C2: whenever the key listing returned keys none of which is eligible,    *)
(* create_refund_invoice has returned None once the command is over, with   *)
(* no prompt shown and no POST to CREATE_REFUND_INVOICE.                    *)
C2_NoEligibleReturnsNone ==
    ( /\ ListingReturned
      /\ pc = "done"
      /\ \A i \in DOMAIN expired_keys : ~SpecEligible(expired_keys[i], clock) )
    => ( /\ createOutcome = "None"
         /\ options = <<>>
         /\ CountOp(PostOp) = 0 )

(* C3: whenever the prompt is shown, its options are exactly the fetched    *)
(* keys whose updatedAt is strictly earlier than thirty days before the     *)
(* clock reading taken for them, numbered from 0 in their fetched order and *)
(* labelled with their apiKey.                                              *)
C3_OptionsAreTheOlderKeys ==
    options # <<>> =>
        /\ Len(checks) = Len(expired_keys)
        /\ LET sel == OlderSubseq(Len(expired_keys))
           IN  /\ eligible_keys = sel
               /\ options = [j \in 1..Len(sel) |-> <<j - 1, sel[j].apiKey>>]

C3_Witness ==
    /\ options # <<>>
    /\ \E i \in DOMAIN expired_keys :
         /\ expired_keys[i].updatedAt.kind = "iso"
         /\ (expired_keys[i].updatedAt.wall - UtcOffset(expired_keys[i].updatedAt.tz))
              + ThirtyDays = checks[i].now
         /\ \A j \in DOMAIN options : options[j][2] # expired_keys[i].apiKey

(* C4: the eligibility check of a key whose updatedAt is malformed, absent, *)
(* null or not a string evaluates to false and raises nothing.              *)
C4_BadTimestampNeverRaises ==
    \A i \in DOMAIN checks :
        expired_keys[i].updatedAt.kind # "iso" => checks[i].verdict = "False"

(* C5: when create_refund_invoice returned None, refund start ends with a   *)
(* warning and without any error message.                                   *)
C5_NothingToRefundIsAWarning ==
    (cmd = "start" /\ pc = "done" /\ createOutcome = "None")
    => (WarningCount >= 1 /\ ErrorCount = 0)

(* C6: an orchestrator operation raises APIError exactly when the failure   *)
(* it caught is a transport failure (requests.RequestException), and        *)
(* RefundError for every other failure.                                     *)
C6_TransportFailureIsAPIError ==
    raised # "none" =>
        /\ raised \in {"APIError", "RefundError"}
        /\ (cause = "RequestException") <=> (raised = "APIError")

(* C7: no exception leaves a command; a command in which anything raised    *)
(* has printed exactly one error message and has returned normally.         *)
C7_FailuresCaughtAtBoundary ==
    /\ exit # "propagated"
    /\ (pc = "done" /\ cause # "none") => (exit = "returned" /\ ErrorCount = 1)

C7_Witness ==
    /\ cmd = "get"
    /\ refund_id = "nonexistent-id"
    /\ pc = "done"
    /\ raised = "RefundError"
    /\ exit = "returned"

(* C8: a creation request is sent at most once, after the key listing and   *)
(* the selection; its keyId is that of the key behind the option the user   *)
(* picked, and that key was eligible when it was checked.                   *)
C8_PostCarriesSelectedEligibleKey ==
    \A i \in DOMAIN trace :
        trace[i].op = PostOp =>
            /\ CountOp(PostOp) = 1
            /\ \E a, b \in 1..(i - 1) :
                 a < b /\ trace[a].op = KeysOp /\ trace[b].op = "choice"
            /\ result # {}
            /\ Get(result, 0) + 1 \in DOMAIN options
            /\ (Len(OlderSubseq(Len(checks))) = 1 => Len(options) = 1)
            /\ \E k \in DOMAIN expired_keys :
                 /\ expired_keys[k].apiKey = options[Get(result, 0) + 1][2]
                 /\ trace[i].keyId = expired_keys[k].keyId
                 /\ SpecEligible(expired_keys[k], checks[k].now)

C8_Witness ==
    /\ CountOp(PostOp) = 1
    /\ Len(options) = 1
    /\ Len(expired_keys) = 2
    /\ createOutcome = "invoice"

(* C9: the status and the amount refund get shows for an invoice are those  *)
(* refund start showed when it created that invoice.                        *)
C9_RoundTrip ==
    (cmd = "get" /\ pc = "done")
    => \A c \in created : \A r \in shown :
           c.id = r.id => (c.status = r.status /\ c.amount = r.amount)

(* C10: an invocation authenticates at most once and before any backend     *)
(* call; start makes the key listing and then at most one POST, list one    *)
(* listing GET, get one detail GET; nothing is called twice.                *)
C10_LinearCalls ==
    /\ CountOp(AuthOp) <= 1
    /\ \A i \in DOMAIN trace :
         IsBackendCall(trace[i]) => (i > 1 /\ trace[1].op = AuthOp)
    /\ cmd = "start" => BackendCalls \in {<<>>, <<KeysOp>>, <<KeysOp, PostOp>>}
    /\ cmd = "list" => BackendCalls \in {<<>>, <<ListOp>>}
    /\ cmd = "get" => BackendCalls \in {<<>>, <<GetOp>>}

C10_Witness ==
    /\ cmd = "start"
    /\ pc = "done"
    /\ BackendCalls = <<KeysOp, PostOp>>
    /\ raised = "APIError"

====
